---- MODULE Spec2Model ----
(***************************************************************************)
(* Jetporch: the Task Handle (src/tasks/handle.rs) and the Playbook        *)
(* Visitor (src/playbooks/visitor.rs).                                     *)
(*                                                                         *)
(* Four specifications share the definitions below:                        *)
(*   Spec        the visitor's event handlers acting on the Run Context;   *)
(*   SpecHandle  the Task Handle's operations acting on hosts/connection;  *)
(*   SpecModes   one drift replayed through a real-mode and a check-mode   *)
(*               visitor, each with a Run Context of its own;              *)
(*   SpecWorkers concurrent workers, one per host, running the handlers    *)
(*               and the handle's recording step lock by lock and line by  *)
(*               line.                                                     *)
(***************************************************************************)
EXTENDS Integers, Sequences, FiniteSets, TLC

\* ------------------------------------------------------------------ bounds

\* counted visitor outcomes (attempts + failures) in one run
MaxEvents == 3
\* Task Handle calls in one run
MaxCalls == 2
\* calls the workers enter in one concurrent run
MaxWorkerCalls == 2

\* ------------------------------------------------------------- vocabulary

Hosts == {"hostA", "hostB", "hostC"}

\* Option<T>: None, or Some(x)
None == <<>>
Some(x) == <<x>>
Option(S) == {None} \cup {Some(x) : x \in S}

\* tasks::request::TaskRequestType, the kinds handle.rs names
TaskRequestType == {"Validate", "Query", "Create", "Modify", "Remove"}

\* tasks::response::TaskStatus, the statuses handle.rs and visitor.rs name
TaskStatus ==
    {"IsCreated", "IsRemoved", "IsModified", "IsExecuted", "IsPassive",
     "IsMatched", "IsSkipped", "Failed",
     "NeedsCreation", "NeedsRemoval", "NeedsModification", "NeedsExecution",
     "IsValidated"}

\* connection::command::CommandResult {cmd, out, rc}
CommandResult == {[cmd |-> "cmd1", out |-> "out1", rc |-> 1]}

Messages == {"msg1"}
Changes == {"changes1"}
Commands == {"cmd1", "cmd2"}

\* tasks::response::TaskResponse as the handle's constructors fill it
TaskResponse ==
    [status : TaskStatus,
     changes : Option(Changes),
     msg : Option(Messages),
     command_result : Option(CommandResult)]

\* the responses the traversal hands to on_host_task_ok / on_host_task_check_ok
OkResponses == {r \in TaskResponse : r.changes = None /\ r.msg = None /\ r.command_result = None}

\* the responses the traversal hands to on_host_task_failed
FailedResponses == {r \in TaskResponse : r.status = "Failed" /\ r.changes = None}

\* ---------------------------------------------------------------- state

VARIABLES
    context,     \* the PlaybookContext behind Arc<RwLock<..>>: the aggregator
    event,       \* the visitor call that ran last and how it ended
    hosts,       \* per host, what record_task_response was handed, in order
    connection,  \* the commands forwarded to the connection, in order
    call,        \* the Task Handle call that ran last and how it ended
    ctxReal,     \* SpecModes: the Run Context of the real-mode run
    ctxCheck,    \* SpecModes: the Run Context of the check-mode run
    verbosity,   \* PlaybookContext.verbosity, fixed for the run
    workers,     \* SpecWorkers: per worker thread, the call it is in
    locks,       \* SpecWorkers: who holds the context RwLock and the host RwLocks
    issued,      \* SpecWorkers: per category, the increments the handlers made
    block        \* SpecWorkers: stdout since the multi-line block now open began

vars == <<context, event, hosts, connection, call, ctxReal, ctxCheck,
          verbosity, workers, locks, issued, block>>
visitorVars == <<context, event>>
handleVars == <<hosts, connection, call>>
modeVars == <<ctxReal, ctxCheck>>
workerVars == <<verbosity, workers, locks, issued, block>>

\* ------------------------------------------- Run Context (the aggregator)

Categories ==
    {"attempted", "created", "removed", "modified", "executed",
     "passive", "matched", "skipped", "failed"}

AdjustedCategories == {"created", "modified", "removed", "executed"}

\* PlaybookContext at playbook start: every counter zero
NewContext ==
    [count |-> [c \in Categories |-> [h \in Hosts |-> 0]],
     total |-> [c \in Categories |-> 0],
     hosts |-> [c \in Categories |-> 0]]

\* increment_<category>_for_host: the run-wide sum goes up, and the
\* hosts-affected count goes up the first time the host reaches the category
IncrementForHost(ctx, cat, host) ==
    [ctx EXCEPT !.count[cat][host] = @ + 1,
                !.total[cat] = @ + 1,
                !.hosts[cat] = IF ctx.count[cat][host] = 0 THEN @ + 1 ELSE @]

increment_attempted_for_host(ctx, host) == IncrementForHost(ctx, "attempted", host)
increment_created_for_host(ctx, host) == IncrementForHost(ctx, "created", host)
increment_removed_for_host(ctx, host) == IncrementForHost(ctx, "removed", host)
increment_modified_for_host(ctx, host) == IncrementForHost(ctx, "modified", host)
increment_executed_for_host(ctx, host) == IncrementForHost(ctx, "executed", host)
increment_passive_for_host(ctx, host) == IncrementForHost(ctx, "passive", host)
increment_matched_for_host(ctx, host) == IncrementForHost(ctx, "matched", host)
increment_skipped_for_host(ctx, host) == IncrementForHost(ctx, "skipped", host)
increment_failed_for_host(ctx, host) == IncrementForHost(ctx, "failed", host)

get_total_attempted_count(ctx) == ctx.total["attempted"]
get_total_failed_count(ctx) == ctx.total["failed"]
get_hosts_failed_count(ctx) == ctx.hosts["failed"]

\* total_adjusted_count: the sum of created + modified + removed + executed
get_total_adjusted_count(ctx) ==
    ctx.total["created"] + ctx.total["modified"]
        + ctx.total["removed"] + ctx.total["executed"]

\* hosts_adjusted_count: the distinct hosts with an adjusted outcome
get_hosts_adjusted_count(ctx) ==
    Cardinality({h \in Hosts : \E c \in AdjustedCategories : ctx.count[c][h] > 0})

\* hosts_seen_count: the distinct hosts with an attempted outcome
get_hosts_seen_count(ctx) ==
    Cardinality({h \in Hosts : ctx.count["attempted"][h] > 0})

\* ------------------------------------------------------ Playbook Visitor

\* what a handler leaves behind: the context, and whether it panicked
Returned(ctx) == [context |-> ctx, panicked |-> FALSE]
Panicked(ctx) == [context |-> ctx, panicked |-> TRUE]

\* the match on the response's status in on_host_task_ok
MatchRealStatus(context2, status, host) ==
    CASE status = "IsCreated"  -> Returned(increment_created_for_host(context2, host))
      [] status = "IsRemoved"  -> Returned(increment_removed_for_host(context2, host))
      [] status = "IsModified" -> Returned(increment_modified_for_host(context2, host))
      [] status = "IsExecuted" -> Returned(increment_executed_for_host(context2, host))
      [] status = "IsPassive"  -> Returned(increment_passive_for_host(context2, host))
      [] status = "IsMatched"  -> Returned(increment_matched_for_host(context2, host))
      [] status = "IsSkipped"  -> Returned(increment_skipped_for_host(context2, host))
      [] status = "Failed"     -> Returned(context2)
      [] OTHER                 -> Panicked(context2)

\* the match on the response's status in on_host_task_check_ok
MatchCheckStatus(context2, status, host) ==
    CASE status = "NeedsCreation"     -> Returned(increment_created_for_host(context2, host))
      [] status = "NeedsRemoval"      -> Returned(increment_removed_for_host(context2, host))
      [] status = "NeedsModification" -> Returned(increment_modified_for_host(context2, host))
      [] status = "NeedsExecution"    -> Returned(increment_executed_for_host(context2, host))
      [] status = "IsPassive"         -> Returned(increment_passive_for_host(context2, host))
      [] status = "IsMatched"         -> Returned(increment_matched_for_host(context2, host))
      [] status = "IsSkipped"         -> Returned(increment_skipped_for_host(context2, host))
      [] status = "Failed"            -> Returned(context2)
      [] OTHER                        -> Panicked(context2)

\* mutant of on_host_task_ok: the Failed arm counts the failure
on_host_task_ok_counts_failed(ctx, task_response, host) ==
    LET context2 == increment_attempted_for_host(ctx, host)
    IN  IF task_response.status = "Failed"
        THEN Returned(increment_failed_for_host(context2, host))
        ELSE MatchRealStatus(context2, task_response.status, host)

\* mutant of on_host_task_ok: the attempt is not counted
on_host_task_ok_skips_attempted(ctx, task_response, host) ==
    MatchRealStatus(ctx, task_response.status, host)

\* mutant of on_host_task_ok: IsValidated falls into the Failed arm
on_host_task_ok_accepts_validated(ctx, task_response, host) ==
    LET context2 == increment_attempted_for_host(ctx, host)
    IN  IF task_response.status = "IsValidated"
        THEN Returned(context2)
        ELSE MatchRealStatus(context2, task_response.status, host)

\* mutant of on_host_task_ok: a created outcome clears the host's failures
on_host_task_ok_forgives_failure(ctx, task_response, host) ==
    LET context2 == increment_attempted_for_host(ctx, host)
        matched == MatchRealStatus(context2, task_response.status, host)
    IN  IF task_response.status = "IsCreated" /\ ctx.count["failed"][host] > 0
        THEN Returned([matched.context EXCEPT
                          !.count["failed"][host] = 0,
                          !.total["failed"] = @ - ctx.count["failed"][host],
                          !.hosts["failed"] = @ - 1])
        ELSE matched

on_host_task_ok(ctx, task_response, host) ==
    LET context2 == increment_attempted_for_host(ctx, host)
    IN  MatchRealStatus(context2, task_response.status, host)

\* mutant of on_host_task_check_ok: the attempt is not counted
on_host_task_check_ok_skips_attempted(ctx, task_response, host) ==
    MatchCheckStatus(ctx, task_response.status, host)

\* mutant of on_host_task_check_ok: "would modify" lands in the created bucket
on_host_task_check_ok_miscounts_modify(ctx, task_response, host) ==
    LET context2 == increment_attempted_for_host(ctx, host)
    IN  IF task_response.status = "NeedsModification"
        THEN Returned(increment_created_for_host(context2, host))
        ELSE MatchCheckStatus(context2, task_response.status, host)

\* mutant of on_host_task_check_ok: a passive outcome lands in the executed bucket
on_host_task_check_ok_passive_as_executed(ctx, task_response, host) ==
    LET context2 == increment_attempted_for_host(ctx, host)
    IN  IF task_response.status = "IsPassive"
        THEN Returned(increment_executed_for_host(context2, host))
        ELSE MatchCheckStatus(context2, task_response.status, host)

on_host_task_check_ok(ctx, task_response, host) ==
    LET context2 == increment_attempted_for_host(ctx, host)
    IN  MatchCheckStatus(context2, task_response.status, host)

\* mutant of on_host_task_retry: the last retry is counted as a failure
on_host_task_retry_counts_exhaustion(ctx, host, retries, delay) ==
    IF retries = 0 THEN Returned(increment_failed_for_host(ctx, host)) ELSE Returned(ctx)

on_host_task_retry(ctx, host, retries, delay) == Returned(ctx)

\* mutant of on_host_task_failed: the failure is counted twice
on_host_task_failed_counts_twice(ctx, task_response, host) ==
    Returned(increment_failed_for_host(increment_failed_for_host(ctx, host), host))

on_host_task_failed(ctx, task_response, host) ==
    Returned(increment_failed_for_host(ctx, host))

\* mutant of on_host_connect_failed: the host is counted as attempted too
on_host_connect_failed_counts_attempt(ctx, host) ==
    Returned(increment_failed_for_host(increment_attempted_for_host(ctx, host), host))

on_host_connect_failed(ctx, host) ==
    Returned(increment_failed_for_host(ctx, host))

\* mutant of get_exit_status: the count itself is the exit status
get_exit_status_returns_count(ctx) == get_hosts_failed_count(ctx)

get_exit_status(ctx) ==
    IF get_hosts_failed_count(ctx) = 0 THEN 0 ELSE 1

\* `a - b` on usize: a debug build panics on underflow, a release build
\* wraps (the wrapped value 2^64 + a - b is kept as the negative a - b)
usize_sub(a, b, build) ==
    IF a >= b THEN [panicked |-> FALSE, value |-> a - b]
    ELSE IF build = "debug" THEN [panicked |-> TRUE, value |-> 0]
    ELSE [panicked |-> FALSE, value |-> a - b]

Builds == {"debug", "release"}

VerdictPerfect == "Perfect. All hosts matched policy."
VerdictApplied == "Actions were applied."
VerdictFailures == "Failures have occured."

\* the closing verdict: match failed_hosts { 0 => match adjusted_hosts {..}, _ => .. }
SummaryVerdict(failed_hosts, adjusted_hosts) ==
    IF failed_hosts = 0
    THEN (IF adjusted_hosts = 0 THEN VerdictPerfect ELSE VerdictApplied)
    ELSE VerdictFailures

\* mutant of show_playbook_summary: the adjusted hosts are matched first
show_playbook_summary_adjusted_first(ctx, build) ==
    LET adjusted_hosts == get_hosts_adjusted_count(ctx)
        failed_hosts == get_hosts_failed_count(ctx)
        unchanged_hosts == usize_sub(get_hosts_seen_count(ctx), adjusted_hosts, build)
        unchanged_ct == usize_sub(get_total_attempted_count(ctx),
                                  get_total_adjusted_count(ctx), build)
    IN  [panicked |-> unchanged_hosts.panicked \/ unchanged_ct.panicked,
         unchanged_hosts |-> unchanged_hosts.value,
         unchanged_ct |-> unchanged_ct.value,
         adjusted_ct |-> get_total_adjusted_count(ctx),
         adjusted_hosts |-> adjusted_hosts,
         failed_ct |-> get_total_failed_count(ctx),
         failed_hosts |-> failed_hosts,
         summary |-> IF adjusted_hosts # 0 THEN VerdictApplied
                     ELSE IF failed_hosts # 0 THEN VerdictFailures
                     ELSE VerdictPerfect]

\* show_playbook_summary: what it reads, derives and prints last
show_playbook_summary(ctx, build) ==
    LET seen_hosts == get_hosts_seen_count(ctx)
        action_ct == get_total_attempted_count(ctx)
        adjusted_ct == get_total_adjusted_count(ctx)
        adjusted_hosts == get_hosts_adjusted_count(ctx)
        unchanged_hosts == usize_sub(seen_hosts, adjusted_hosts, build)
        unchanged_ct == usize_sub(action_ct, adjusted_ct, build)
        failed_ct == get_total_failed_count(ctx)
        failed_hosts == get_hosts_failed_count(ctx)
    IN  [panicked |-> unchanged_hosts.panicked \/ unchanged_ct.panicked,
         unchanged_hosts |-> unchanged_hosts.value,
         unchanged_ct |-> unchanged_ct.value,
         adjusted_ct |-> adjusted_ct,
         adjusted_hosts |-> adjusted_hosts,
         failed_ct |-> failed_ct,
         failed_hosts |-> failed_hosts,
         summary |-> SummaryVerdict(failed_hosts, adjusted_hosts)]

\* ------------------------------------------------- Spec: visitor events

\* an event that carries no host, or no response
NoHost == "-"
NoResponse == [status |-> "-", changes |-> None, msg |-> None, command_result |-> None]

NoEvent == [handler |-> "-", host |-> NoHost, response |-> NoResponse,
            panicked |-> FALSE, exit |-> None, summary |-> None]

InitVisitor ==
    /\ context = NewContext
    /\ event = NoEvent

\* counted outcomes so far; a panic ends the process
Counted(ctx) == get_total_attempted_count(ctx) + get_total_failed_count(ctx)
Running == ~event.panicked
MayCount == Running /\ Counted(context) < MaxEvents

Deliver(handler, host, response, result) ==
    /\ context' = result.context
    /\ UNCHANGED <<handleVars, modeVars, workerVars>>
    /\ event' = [handler |-> handler, host |-> host, response |-> response,
                 panicked |-> result.panicked, exit |-> None, summary |-> None]

OnHostTaskOk ==
    /\ MayCount
    /\ \E host \in Hosts, r \in OkResponses :
         Deliver("on_host_task_ok", host, r, on_host_task_ok(context, r, host))

OnHostTaskCheckOk ==
    /\ MayCount
    /\ \E host \in Hosts, r \in OkResponses :
         Deliver("on_host_task_check_ok", host, r, on_host_task_check_ok(context, r, host))

\* (retries, delay) of a retry notice: the last retry, and an earlier one
RetryNotices == {<<0, 0>>, <<2, 5>>}

\* a retry notice announces another attempt, whose outcome is still to come
OnHostTaskRetry ==
    /\ MayCount
    /\ \E host \in Hosts, notice \in RetryNotices :
         Deliver("on_host_task_retry", host, NoResponse,
                 on_host_task_retry(context, host, notice[1], notice[2]))

OnHostTaskFailed ==
    /\ MayCount
    /\ \E host \in Hosts, r \in FailedResponses :
         Deliver("on_host_task_failed", host, r, on_host_task_failed(context, r, host))

OnHostConnectFailed ==
    /\ MayCount
    /\ \E host \in Hosts :
         Deliver("on_host_connect_failed", host, NoResponse, on_host_connect_failed(context, host))

GetExitStatus ==
    /\ Running
    /\ event' = [handler |-> "get_exit_status", host |-> NoHost, response |-> NoResponse,
                 panicked |-> FALSE, exit |-> Some(get_exit_status(context)),
                 summary |-> None]
    /\ UNCHANGED <<context, handleVars, modeVars, workerVars>>

\* on_exit: the summary is rendered from the context as it stands
OnExit ==
    /\ Running
    /\ \E build \in Builds :
         LET shown == show_playbook_summary(context, build)
         IN  event' = [handler |-> "on_exit", host |-> NoHost, response |-> NoResponse,
                       panicked |-> shown.panicked, exit |-> None,
                       summary |-> Some(shown)]
    /\ UNCHANGED <<context, handleVars, modeVars, workerVars>>

NextVisitor ==
    \/ OnHostTaskOk
    \/ OnHostTaskCheckOk
    \/ OnHostTaskRetry
    \/ OnHostTaskFailed
    \/ OnHostConnectFailed
    \/ GetExitStatus
    \/ OnExit

\* ---------------------------------------------------- visitor: claims

FailedHosts(ctx) == {h \in Hosts : ctx.count["failed"][h] > 0}

\* C5: get_exit_status answers 0 when hosts_failed_count is 0 and 1
\* otherwise, whatever the other counters hold, and changes no counter.
C5_ExitStatusIffNoFailedHost ==
    [][ (event'.handler = "get_exit_status") =>
          /\ context' = context
          /\ event'.exit \in {Some(0), Some(1)}
          /\ (event'.exit = Some(0)) <=> (get_hosts_failed_count(context) = 0)
          /\ (event'.exit = Some(0)) <=> (FailedHosts(context) = {}) ]_vars

\* C5 witness: exit status 1 with one host failed twice, beside created and
\* attempted counts
C5_Witness ==
    /\ event.handler = "get_exit_status"
    /\ event.exit = Some(1)
    /\ context.total["failed"] = 2
    /\ context.hosts["failed"] = 1
    /\ context.total["created"] = 1

\* the step just taken delivered a Failed response through `handlers`
FailedDelivered(handlers) ==
    /\ event'.handler \in handlers
    /\ event'.response.status = "Failed"

\* the step just taken counted one failure for its host
CountsOneFailure ==
    /\ context'.total["failed"] = context.total["failed"] + 1
    /\ context'.hosts["failed"] =
          context.hosts["failed"]
              + (IF context.count["failed"][event'.host] = 0 THEN 1 ELSE 0)

\* C6 as claimed: a Failed response is counted in the failed bucket whichever
\* of the three handlers it arrives through.
C6_FailedCountedThroughAnyHandler ==
    [][ FailedDelivered({"on_host_task_ok", "on_host_task_check_ok",
                         "on_host_task_failed"})
        => (~event'.panicked /\ CountsOneFailure) ]_vars

\* C6 as amended: a Failed response never aborts the run; through
\* on_host_task_failed it counts one failure (and the host once); through
\* on_host_task_ok or on_host_task_check_ok it is "failed (ignored)": one
\* attempt is counted and the failed counters stay as they were.
C6_FailedCountedOnlyByTaskFailed ==
    [][ /\ FailedDelivered({"on_host_task_failed"})
          => (~event'.panicked /\ CountsOneFailure)
        /\ FailedDelivered({"on_host_task_ok", "on_host_task_check_ok"})
          => /\ ~event'.panicked
             /\ context'.total["failed"] = context.total["failed"]
             /\ context'.hosts["failed"] = context.hosts["failed"]
             /\ context'.count["failed"] = context.count["failed"]
             /\ context'.total["attempted"] = context.total["attempted"] + 1 ]_vars

\* C6 witness: hostA failed through on_host_task_failed, then a Failed
\* response for hostA went through on_host_task_ok
C6_Witness ==
    /\ event.handler = "on_host_task_ok"
    /\ event.response.status = "Failed"
    /\ event.host = "hostA"
    /\ ~event.panicked
    /\ context.count["failed"]["hostA"] = 1
    /\ context.count["attempted"]["hostA"] = 1

\* the attempted count of every host bounds its count in each of `cats`
AttemptedBounds(ctx, cats) ==
    \A h \in Hosts : \A c \in cats : ctx.count["attempted"][h] >= ctx.count[c][h]

\* C8 as claimed: the three outcome handlers keep every host's attempted
\* count at least its count in every other bucket, failed included.
C8_AttemptedBoundsEveryBucket ==
    [][ (/\ event'.handler \in {"on_host_task_ok", "on_host_task_check_ok",
                                "on_host_task_failed"}
         /\ AttemptedBounds(context, Categories))
        => AttemptedBounds(context', Categories) ]_vars

\* C8 as amended: every host's attempted count is at least its created,
\* removed, modified, executed, passive, matched and skipped counts; the
\* failed count is not bounded by it.
C8_AttemptedBoundsOutcomeBuckets ==
    AttemptedBounds(context, Categories \ {"failed"})

\* C8 witness: hostA has a created outcome, and more failures than attempts
C8_Witness ==
    /\ context.count["created"]["hostA"] = 1
    /\ context.count["attempted"]["hostA"] = 1
    /\ context.count["failed"]["hostA"] = 2

\* C9: neither subtraction of the summary underflows.
C9_SummaryNeverUnderflows ==
    /\ get_total_attempted_count(context) >= get_total_adjusted_count(context)
    /\ get_hosts_seen_count(context) >= get_hosts_adjusted_count(context)

\* C9 witness: the summary after an adjusted outcome in each mode and a
\* failure
C9_Witness ==
    /\ event.handler = "on_exit"
    /\ ~event.panicked
    /\ get_total_adjusted_count(context) = 2
    /\ get_total_attempted_count(context) = 2
    /\ get_hosts_adjusted_count(context) = 2
    /\ get_total_failed_count(context) = 1

RealModePanics ==
    {"NeedsCreation", "NeedsRemoval", "NeedsModification", "NeedsExecution",
     "IsValidated"}
CheckModePanics ==
    {"IsCreated", "IsRemoved", "IsModified", "IsExecuted", "IsValidated"}

\* C10: on_host_task_ok panics for exactly the check-mode statuses and
\* IsValidated, on_host_task_check_ok for exactly the real-mode statuses and
\* IsValidated; for every other status the handler returns.
C10_PanicsExactlyOutsideVocabulary ==
    /\ event.handler = "on_host_task_ok"
          => (event.panicked <=> event.response.status \in RealModePanics)
    /\ event.handler = "on_host_task_check_ok"
          => (event.panicked <=> event.response.status \in CheckModePanics)

\* C10 witness: on_host_task_check_ok panicked on IsExecuted
C10_Witness ==
    /\ event.handler = "on_host_task_check_ok"
    /\ event.response.status = "IsExecuted"
    /\ event.panicked
    /\ get_total_attempted_count(context) = 2

\* the buckets other than `cats` are left as they were
BucketsUnchangedExcept(cats) ==
    \A c \in Categories \ cats :
        /\ context'.total[c] = context.total[c]
        /\ context'.hosts[c] = context.hosts[c]
        /\ context'.count[c] = context.count[c]

\* the per-host tallies of the run: hostA created, hostB matched, hostC
\* failed to connect
ScenarioCounts ==
    [c \in Categories |-> [h \in Hosts |->
        IF \/ (h = "hostA" /\ c \in {"attempted", "created"})
           \/ (h = "hostB" /\ c \in {"attempted", "matched"})
           \/ (h = "hostC" /\ c = "failed")
        THEN 1 ELSE 0]]

\* C11: a connection failure changes the aggregates exactly as a task
\* failure on the same host would: the failed total grows by one, the
\* failed-hosts count grows by one only on the host's first failure, attempted
\* and every other bucket stay as they were. After hostA created, hostB
\* matched and hostC failed to connect: created 1/1, matched 1/1, failed 1/1,
\* total attempted 2, exit status 1.
C11_ConnectFailureCountsAsTaskFailure ==
    [][ /\ event'.handler = "on_host_connect_failed"
          => /\ ~event'.panicked
             /\ \A r \in FailedResponses :
                   context' = on_host_task_failed(context, r, event'.host).context
             /\ context'.total["failed"] = context.total["failed"] + 1
             /\ context'.hosts["failed"] = context.hosts["failed"]
                   + (IF context.count["failed"][event'.host] = 0 THEN 1 ELSE 0)
             /\ BucketsUnchangedExcept({"failed"})
        /\ context'.count = ScenarioCounts
          => /\ context'.total["created"] = 1 /\ context'.hosts["created"] = 1
             /\ context'.total["matched"] = 1 /\ context'.hosts["matched"] = 1
             /\ context'.total["failed"] = 1 /\ context'.hosts["failed"] = 1
             /\ get_total_attempted_count(context') = 2
             /\ get_exit_status(context') = 1 ]_vars

\* C11 witness: the run of the scenario, ended by hostC's connection failure
C11_Witness ==
    /\ event.handler = "on_host_connect_failed"
    /\ event.host = "hostC"
    /\ context.count = ScenarioCounts

\* C12: a retry notice, with any retries and delay and anywhere in a run,
\* leaves every counter and the exit status as they were, and returns.
C12_RetryChangesNoCounter ==
    [][ event'.handler = "on_host_task_retry"
        => /\ ~event'.panicked
           /\ context' = context
           /\ get_exit_status(context') = get_exit_status(context) ]_vars

\* C12 witness: a retry notice for hostB after hostA was created and hostB
\* failed
C12_Witness ==
    /\ event.handler = "on_host_task_retry"
    /\ event.host = "hostB"
    /\ context.count["created"]["hostA"] = 1
    /\ context.count["failed"]["hostB"] = 1
    /\ get_exit_status(context) = 1

RECURSIVE SumOver(_, _)
SumOver(f, S) ==
    IF S = {} THEN 0
    ELSE LET x == CHOOSE y \in S : TRUE IN f[x] + SumOver(f, S \ {x})

\* the events counted in bucket c, and the hosts that have at least one
EventsCounted(ctx, c) == SumOver(ctx.count[c], Hosts)
HostsCounted(ctx, c) == {h \in Hosts : ctx.count[c][h] > 0}

\* the buckets one delivery of `handler` with `status` counts in
CountedBuckets(handler, status) ==
    IF handler = "on_host_task_ok" THEN
        {"attempted"} \cup
        (CASE status = "IsCreated" -> {"created"}
           [] status = "IsRemoved" -> {"removed"}
           [] status = "IsModified" -> {"modified"}
           [] status = "IsExecuted" -> {"executed"}
           [] status = "IsPassive" -> {"passive"}
           [] status = "IsMatched" -> {"matched"}
           [] status = "IsSkipped" -> {"skipped"}
           [] OTHER -> {})
    ELSE IF handler = "on_host_task_check_ok" THEN
        {"attempted"} \cup
        (CASE status = "NeedsCreation" -> {"created"}
           [] status = "NeedsRemoval" -> {"removed"}
           [] status = "NeedsModification" -> {"modified"}
           [] status = "NeedsExecution" -> {"executed"}
           [] status = "IsPassive" -> {"passive"}
           [] status = "IsMatched" -> {"matched"}
           [] status = "IsSkipped" -> {"skipped"}
           [] OTHER -> {})
    ELSE IF handler \in {"on_host_task_failed", "on_host_connect_failed"} THEN {"failed"}
    ELSE {}

\* C13: for every category the run-wide total is the number of events counted
\* in it and the distinct-host count is the number of hosts with at least one
\* such event, so the host count never exceeds the total; each delivered event
\* adds one to the total of each bucket it counts in, and one to the bucket's
\* host count exactly when it is that host's first.
C13_TotalsAndHostCountsTallyEvents ==
    /\ [](\A c \in Categories :
              /\ context.total[c] = EventsCounted(context, c)
              /\ context.hosts[c] = Cardinality(HostsCounted(context, c))
              /\ context.hosts[c] <= context.total[c])
    /\ [][ LET counted == CountedBuckets(event'.handler, event'.response.status)
           IN  IF counted = {}
               THEN context'.total = context.total /\ context'.hosts = context.hosts
               ELSE /\ \A c \in counted :
                         /\ context'.total[c] = context.total[c] + 1
                         /\ context'.hosts[c] = context.hosts[c]
                               + (IF context.count[c][event'.host] = 0 THEN 1 ELSE 0)
                    /\ \A c \in Categories \ counted :
                         /\ context'.total[c] = context.total[c]
                         /\ context'.hosts[c] = context.hosts[c] ]_vars

\* C13 witness: hostA was modified twice and failed once
C13_Witness ==
    /\ context.total["modified"] = 2
    /\ context.hosts["modified"] = 1
    /\ context.count["modified"]["hostA"] = 2
    /\ context.total["failed"] = 1
    /\ event.handler = "on_host_task_failed"

\* C14: the summary shows exactly one verdict, by strict precedence: failures
\* when any host failed, otherwise actions applied when any host was adjusted,
\* otherwise all hosts matched policy; the failure verdict is shown exactly
\* when get_exit_status returns 1.
C14_VerdictByPrecedence ==
    (event.handler = "on_exit" /\ ~event.panicked) =>
        LET verdict == event.summary[1].summary
            failed == get_hosts_failed_count(context)
            adjusted == get_hosts_adjusted_count(context)
        IN  /\ verdict \in {VerdictFailures, VerdictApplied, VerdictPerfect}
            /\ failed > 0 => verdict = VerdictFailures
            /\ (failed = 0 /\ adjusted > 0) => verdict = VerdictApplied
            /\ (failed = 0 /\ adjusted = 0) => verdict = VerdictPerfect
            /\ (verdict = VerdictFailures) <=> (get_exit_status(context) = 1)

\* C14 witness: the summary of a run with an adjusted host and a failed host
C14_Witness ==
    /\ event.handler = "on_exit"
    /\ ~event.panicked
    /\ get_hosts_adjusted_count(context) = 1
    /\ get_hosts_failed_count(context) = 1
    /\ event.summary[1].summary = VerdictFailures

\* C21: once on_host_task_failed or on_host_connect_failed has reported a
\* failure, get_exit_status returns 1 at every later point, whatever events
\* follow: no step lowers a failed counter of any host, the failed total or the
\* failed-hosts count, a reported failure leaves the exit status at 1, and an
\* exit status of 1 stays 1.
C21_ReportedFailureKeepsExitStatus ==
    [][ /\ \A h \in Hosts : context'.count["failed"][h] >= context.count["failed"][h]
        /\ context'.total["failed"] >= context.total["failed"]
        /\ context'.hosts["failed"] >= context.hosts["failed"]
        /\ event'.handler \in {"on_host_task_failed", "on_host_connect_failed"}
              => get_exit_status(context') = 1
        /\ get_exit_status(context) = 1 => get_exit_status(context') = 1
        /\ (event'.handler = "get_exit_status" /\ get_exit_status(context) = 1)
              => event'.exit = Some(1) ]_vars

\* C21 witness: hostA's failure was reported, a created outcome for hostA
\* followed, and get_exit_status is 1
C21_Witness ==
    /\ event.handler = "on_host_task_ok"
    /\ event.response.status = "IsCreated"
    /\ event.host = "hostA"
    /\ context.count["failed"]["hostA"] = 1
    /\ context.count["created"]["hostA"] = 1
    /\ get_exit_status(context) = 1

\* the outcomes that count as attempted and as nothing adjusted
UnchangedStatuses == {"IsPassive", "IsMatched", "IsSkipped"}

\* the per-host tallies of a run of one host with one IsPassive outcome
PassiveRunCounts ==
    [c \in Categories |-> [h \in Hosts |->
        IF h = "hostA" /\ c \in {"attempted", "passive"} THEN 1 ELSE 0]]

\* C22: total_adjusted_count leaves the passive, matched and skipped outcomes
\* out: together with them it never exceeds the attempts; an IsPassive,
\* IsMatched or IsSkipped outcome, in either mode, returns, adds one to
\* total_attempted_count and
\* leaves total_adjusted_count and hosts_adjusted_count as they were, so the
\* summary's unchanged count grows by exactly one; the summary of a run of one
\* host with one IsPassive outcome shows adjusted_count 0, unchanged_count 1
\* and the "all hosts matched policy" verdict.
C22_PassiveOutcomesAreUnchanged ==
    /\ [](/\ get_total_adjusted_count(context) + context.total["passive"]
                   + context.total["matched"] + context.total["skipped"]
                 <= get_total_attempted_count(context)
          /\ (event.handler = "on_exit" /\ context.count = PassiveRunCounts)
                 => /\ ~event.panicked
                    /\ event.summary[1].adjusted_ct = 0
                    /\ event.summary[1].unchanged_ct = 1
                    /\ event.summary[1].failed_hosts = 0
                    /\ event.summary[1].summary = VerdictPerfect)
    /\ [][ (/\ event'.handler \in {"on_host_task_ok", "on_host_task_check_ok"}
             /\ event'.response.status \in UnchangedStatuses)
            => /\ ~event'.panicked
               /\ get_total_attempted_count(context')
                     = get_total_attempted_count(context) + 1
               /\ get_total_adjusted_count(context') = get_total_adjusted_count(context)
               /\ get_hosts_adjusted_count(context') = get_hosts_adjusted_count(context)
               /\ \A c \in AdjustedCategories : context'.count[c] = context.count[c]
               /\ \A build \in Builds :
                     show_playbook_summary(context', build).unchanged_ct
                        = show_playbook_summary(context, build).unchanged_ct + 1 ]_vars

\* C22 witness: the summary shown after hostA's single IsPassive outcome
C22_Witness ==
    /\ event.handler = "on_exit"
    /\ context.count = PassiveRunCounts
    /\ event.summary[1].unchanged_ct = 1
    /\ event.summary[1].summary = VerdictPerfect

\* ---------------------------------------------------------- Task Handle

\* tasks::request::TaskRequest, as far as the handle reads it
TaskRequest == [request_type : TaskRequestType]

\* Host::record_task_response(request, response), reached through the guard
\* of host.write(): the host keeps what it was handed; its counters are read
\* off that record
record_task_response(host_state, guard, request, response) ==
    Append(host_state, [guard |-> guard, request |-> request, response |-> response])

\* the host's counters: "attempted", then the status-specific counter
HostAttempted(h) == Len(hosts[h])
HostCounter(h, status) ==
    Cardinality({i \in 1..Len(hosts[h]) : hosts[h][i].response.status = status})

\* what the connection may answer to run_command
RunResults ==
    {[ok |-> TRUE,
      response |-> [status |-> "IsExecuted", changes |-> None, msg |-> None,
                    command_result |-> Some(cr)]] : cr \in CommandResult}
    \cup
    {[ok |-> FALSE,
      response |-> [status |-> "Failed", changes |-> None, msg |-> None,
                    command_result |-> Some(cr)]] : cr \in CommandResult}

NoResult == [ok |-> FALSE, response |-> NoResponse]

NoCall == [op |-> "-", host |-> NoHost, request |-> [request_type |-> "-"],
           cmd |-> "-", outcome |-> "-", response |-> NoResponse, result |-> NoResult]

InitHandle ==
    /\ hosts = [h \in Hosts |-> <<>>]
    /\ connection = <<>>
    /\ call = NoCall

\* assert!(..) failed: the call panics, before anything else happened
Aborts(op, h, request) ==
    /\ call' = [op |-> op, host |-> h, request |-> request, cmd |-> "-",
                outcome |-> "aborted", response |-> NoResponse, result |-> NoResult]
    /\ UNCHANGED <<hosts, connection>>
    /\ UNCHANGED <<visitorVars, modeVars, workerVars>>

\* self.host.write().unwrap().record_task_response(request, &response);
\* return response;
RecordsAndReturns(op, h, request, response) ==
    /\ hosts' = [hosts EXCEPT ![h] = record_task_response(@, "write", request, response)]
    /\ call' = [op |-> op, host |-> h, request |-> request, cmd |-> "-",
                outcome |-> "returned", response |-> response, result |-> NoResult]
    /\ UNCHANGED connection
    /\ UNCHANGED <<visitorVars, modeVars, workerVars>>

\* Connection::run_command(handle, request, cmd): the connection takes the
\* command and answers
run_command(h, request, cmd, res) ==
    connection' = Append(connection, [host |-> h, cmd |-> cmd, result |-> res])

\* mutant of run: the assert on the request type is missing
run_without_assert(h, request, cmd) ==
    \E res \in RunResults :
      /\ run_command(h, request, cmd, res)
      /\ call' = [op |-> "run", host |-> h, request |-> request, cmd |-> cmd,
                  outcome |-> "returned", response |-> NoResponse, result |-> res]
      /\ UNCHANGED hosts
      /\ UNCHANGED <<visitorVars, modeVars, workerVars>>

run(h, request, cmd) ==
    IF request.request_type = "Validate"
    THEN Aborts("run", h, request)
    ELSE \E res \in RunResults :
           /\ run_command(h, request, cmd, res)
           /\ call' = [op |-> "run", host |-> h, request |-> request, cmd |-> cmd,
                       outcome |-> "returned", response |-> NoResponse, result |-> res]
           /\ UNCHANGED hosts
           /\ UNCHANGED <<visitorVars, modeVars, workerVars>>

\* mutant of is_failed: the response is recorded into every host
is_failed_records_everywhere(h, request, msg) ==
    LET response == [status |-> "Failed", changes |-> None, msg |-> Some(msg),
                     command_result |-> None]
    IN  /\ hosts' = [x \in Hosts |-> record_task_response(hosts[x], "write", request, response)]
        /\ call' = [op |-> "is_failed", host |-> h, request |-> request, cmd |-> "-",
                    outcome |-> "returned", response |-> response, result |-> NoResult]
        /\ UNCHANGED connection
        /\ UNCHANGED <<visitorVars, modeVars, workerVars>>

is_failed(h, request, msg) ==
    RecordsAndReturns("is_failed", h, request,
        [status |-> "Failed", changes |-> None, msg |-> Some(msg),
         command_result |-> None])

command_failed(h, request, result) ==
    RecordsAndReturns("command_failed", h, request,
        [status |-> "Failed", changes |-> None, msg |-> None,
         command_result |-> Some(result)])

command_ok(h, request, result) ==
    RecordsAndReturns("command_ok", h, request,
        [status |-> "IsCreated", changes |-> None, msg |-> None,
         command_result |-> Some(result)])

is_validated(h, request) ==
    IF request.request_type # "Validate"
    THEN Aborts("is_validated", h, request)
    ELSE RecordsAndReturns("is_validated", h, request,
            [status |-> "IsValidated", changes |-> None, msg |-> None,
             command_result |-> None])

is_created(h, request) ==
    IF request.request_type # "Create"
    THEN Aborts("is_created", h, request)
    ELSE RecordsAndReturns("is_created", h, request,
            [status |-> "IsCreated", changes |-> None, msg |-> None,
             command_result |-> None])

is_removed(h, request) ==
    IF request.request_type # "Remove"
    THEN Aborts("is_removed", h, request)
    ELSE RecordsAndReturns("is_removed", h, request,
            [status |-> "IsRemoved", changes |-> None, msg |-> None,
             command_result |-> None])

is_modified(h, request, changes) ==
    IF request.request_type # "Modify"
    THEN Aborts("is_modified", h, request)
    ELSE RecordsAndReturns("is_modified", h, request,
            [status |-> "IsModified", changes |-> changes, msg |-> None,
             command_result |-> None])

\* mutant of needs_creation: the assert comes after the recording
needs_creation_asserts_late(h, request) ==
    LET response == [status |-> "NeedsCreation", changes |-> None, msg |-> None,
                     command_result |-> None]
    IN  /\ hosts' = [hosts EXCEPT ![h] = record_task_response(@, "write", request, response)]
        /\ call' = IF request.request_type # "Query"
                   THEN [op |-> "needs_creation", host |-> h, request |-> request,
                         cmd |-> "-", outcome |-> "aborted", response |-> NoResponse,
                         result |-> NoResult]
                   ELSE [op |-> "needs_creation", host |-> h, request |-> request,
                         cmd |-> "-", outcome |-> "returned", response |-> response,
                         result |-> NoResult]
        /\ UNCHANGED connection
        /\ UNCHANGED <<visitorVars, modeVars, workerVars>>

needs_creation(h, request) ==
    IF request.request_type # "Query"
    THEN Aborts("needs_creation", h, request)
    ELSE RecordsAndReturns("needs_creation", h, request,
            [status |-> "NeedsCreation", changes |-> None, msg |-> None,
             command_result |-> None])

needs_modification(h, request, changes) ==
    IF request.request_type # "Query"
    THEN Aborts("needs_modification", h, request)
    ELSE RecordsAndReturns("needs_modification", h, request,
            [status |-> "NeedsModification", changes |-> changes, msg |-> None,
             command_result |-> None])

needs_removal(h, request) ==
    IF request.request_type # "Query"
    THEN Aborts("needs_removal", h, request)
    ELSE RecordsAndReturns("needs_removal", h, request,
            [status |-> "NeedsRemoval", changes |-> None, msg |-> None,
             command_result |-> None])

\* --------------------------------------- SpecHandle: Task Handle calls

RECURSIVE SumLen(_, _)
SumLen(f, S) ==
    IF S = {} THEN 0
    ELSE LET h == CHOOSE x \in S : TRUE IN Len(f[h]) + SumLen(f, S \ {h})

\* calls that returned so far; an aborted call ends the process
CallsMade == SumLen(hosts, Hosts) + Len(connection)
MayCall == call.outcome # "aborted" /\ CallsMade < MaxCalls

Run ==
    MayCall /\ \E h \in Hosts, request \in TaskRequest, cmd \in Commands :
        run(h, request, cmd)
IsFailed ==
    MayCall /\ \E h \in Hosts, request \in TaskRequest, msg \in Messages :
        is_failed(h, request, msg)
CommandFailed ==
    MayCall /\ \E h \in Hosts, request \in TaskRequest, result \in CommandResult :
        command_failed(h, request, result)
CommandOk ==
    MayCall /\ \E h \in Hosts, request \in TaskRequest, result \in CommandResult :
        command_ok(h, request, result)
IsValidated ==
    MayCall /\ \E h \in Hosts, request \in TaskRequest : is_validated(h, request)
IsCreated ==
    MayCall /\ \E h \in Hosts, request \in TaskRequest : is_created(h, request)
IsRemoved ==
    MayCall /\ \E h \in Hosts, request \in TaskRequest : is_removed(h, request)
IsModified ==
    MayCall /\ \E h \in Hosts, request \in TaskRequest, changes \in Option(Changes) :
        is_modified(h, request, changes)
NeedsCreation ==
    MayCall /\ \E h \in Hosts, request \in TaskRequest : needs_creation(h, request)
NeedsModification ==
    MayCall /\ \E h \in Hosts, request \in TaskRequest, changes \in Option(Changes) :
        needs_modification(h, request, changes)
NeedsRemoval ==
    MayCall /\ \E h \in Hosts, request \in TaskRequest : needs_removal(h, request)

NextHandle ==
    \/ Run
    \/ IsFailed
    \/ CommandFailed
    \/ CommandOk
    \/ IsValidated
    \/ IsCreated
    \/ IsRemoved
    \/ IsModified
    \/ NeedsCreation
    \/ NeedsModification
    \/ NeedsRemoval

\* ------------------------------------------------ Task Handle: claims

\* the Status Protocol: the statuses legal for a request kind
LegalStatuses(kind) ==
    {"IsExecuted", "IsPassive", "IsSkipped", "Failed"} \cup
    (CASE kind = "Validate" -> {"IsValidated"}
       [] kind = "Query"    -> {"IsMatched", "NeedsCreation", "NeedsModification",
                                "NeedsRemoval"}
       [] kind = "Create"   -> {"IsCreated"}
       [] kind = "Modify"   -> {"IsModified"}
       [] kind = "Remove"   -> {"IsRemoved"}
       [] OTHER             -> {})

ResponseBuilders ==
    {"is_failed", "command_failed", "command_ok", "is_validated", "is_created",
     "is_removed", "is_modified", "needs_creation", "needs_modification",
     "needs_removal"}

\* the request kind each kind-specific constructor is paired with
PairedKind(op) ==
    CASE op = "is_validated" -> "Validate"
      [] op = "is_created"   -> "Create"
      [] op = "is_removed"   -> "Remove"
      [] op = "is_modified"  -> "Modify"
      [] op \in {"needs_creation", "needs_modification", "needs_removal"} -> "Query"

KindSpecificBuilders == ResponseBuilders \ {"is_failed", "command_failed", "command_ok"}

\* C1: every response a response-building operation returns, and every
\* response a host was handed, has a status legal for the kind of the
\* request it answers.  The code breaks this: command_ok answers IsCreated
\* to a request of any kind.
C1_StatusLegalForRequestKind ==
    /\ (call.outcome = "returned" /\ call.op \in ResponseBuilders)
          => call.response.status \in LegalStatuses(call.request.request_type)
    /\ \A h \in Hosts : \A i \in 1..Len(hosts[h]) :
          hosts[h][i].response.status \in LegalStatuses(hosts[h][i].request.request_type)

\* C1, less command_ok: the nine other constructors keep to the table
C1_OtherBuildersLegal ==
    (call.outcome = "returned" /\ call.op \in ResponseBuilders \ {"command_ok"})
        => call.response.status \in LegalStatuses(call.request.request_type)

\* C2: a kind-specific constructor called with a request of another kind
\* aborts, returns no response, and leaves every host's record (hence its
\* counters) as it was before the call.
C2_KindMismatchAbortsBeforeRecording ==
    [][ (/\ call'.op \in KindSpecificBuilders
         /\ call'.request.request_type # PairedKind(call'.op))
        => (/\ call'.outcome = "aborted"
            /\ call'.response = NoResponse
            /\ hosts' = hosts
            /\ \A h \in Hosts : HostAttempted(h)' = HostAttempted(h)
            /\ \A h \in Hosts, st \in TaskStatus : HostCounter(h, st)' = HostCounter(h, st)) ]_vars

\* C2 witness: is_modified aborted on a host that already holds a record
C2_Witness ==
    /\ call.op = "is_modified"
    /\ call.outcome = "aborted"
    /\ call.request.request_type = "Query"
    /\ Len(hosts[call.host]) = 1

\* C3: run with a Validate request aborts and forwards nothing to the
\* connection; with any other kind the command is forwarded exactly once
\* and the connection's answer is what run returns.
C3_RunForwardsUnlessValidate ==
    [][ (call'.op = "run") =>
          IF call'.request.request_type = "Validate"
          THEN call'.outcome = "aborted" /\ connection' = connection
          ELSE /\ call'.outcome = "returned"
               /\ connection' = Append(connection,
                      [host |-> call'.host, cmd |-> call'.cmd, result |-> call'.result])
               /\ call'.result \in RunResults ]_vars

\* C3 witness: a command was forwarded, and a later run in the validate
\* phase aborted
C3_Witness ==
    /\ call.op = "run"
    /\ call.outcome = "aborted"
    /\ Len(connection) = 1
    /\ connection[1].cmd = "cmd2"
    /\ ~connection[1].result.ok

\* C4: a response-building call that returns has recorded the response it
\* returns, once, through the write guard, into the host of its handle, and
\* nothing into any other host.
C4_RecordedOnceIntoBoundHost ==
    [][ (call'.outcome = "returned" /\ call'.op \in ResponseBuilders) =>
          /\ hosts'[call'.host] =
                Append(hosts[call'.host],
                       [guard |-> "write", request |-> call'.request,
                        response |-> call'.response])
          /\ \A h \in Hosts \ {call'.host} : hosts'[h] = hosts[h] ]_vars

\* C4 witness: is_failed returned on hostB while hostA holds an earlier record
C4_Witness ==
    /\ call.op = "is_failed"
    /\ call.outcome = "returned"
    /\ call.host = "hostB"
    /\ Len(hosts["hostA"]) = 1
    /\ Len(hosts["hostB"]) = 1
    /\ hosts["hostB"][1].response = call.response
    /\ hosts["hostC"] = <<>>

\* ------------------------------------------------------- specifications

\* --------------------------- SpecModes: one drift, reported in both modes

Outcomes ==
    {"created", "removed", "modified", "executed", "passive", "matched",
     "skipped", "failed"}

\* the status a real-mode run reports for an outcome
RealStatus(o) ==
    CASE o = "created"  -> "IsCreated"
      [] o = "removed"  -> "IsRemoved"
      [] o = "modified" -> "IsModified"
      [] o = "executed" -> "IsExecuted"
      [] o = "passive"  -> "IsPassive"
      [] o = "matched"  -> "IsMatched"
      [] o = "skipped"  -> "IsSkipped"
      [] o = "failed"   -> "Failed"

\* the status a check-mode run reports for the same outcome
CheckStatus(o) ==
    CASE o = "created"  -> "NeedsCreation"
      [] o = "removed"  -> "NeedsRemoval"
      [] o = "modified" -> "NeedsModification"
      [] o = "executed" -> "NeedsExecution"
      [] o = "passive"  -> "IsPassive"
      [] o = "matched"  -> "IsMatched"
      [] o = "skipped"  -> "IsSkipped"
      [] o = "failed"   -> "Failed"

WithStatus(status) ==
    [status |-> status, changes |-> None, msg |-> None, command_result |-> None]

InitModes ==
    /\ ctxReal = NewContext
    /\ ctxCheck = NewContext

\* the same (host, outcome) reaches on_host_task_ok of the real-mode run and
\* on_host_task_check_ok of the check-mode run
DeliverOutcome ==
    /\ get_total_attempted_count(ctxReal) < MaxEvents
    /\ get_total_attempted_count(ctxCheck) < MaxEvents
    /\ \E host \in Hosts, o \in Outcomes :
         LET real == on_host_task_ok(ctxReal, WithStatus(RealStatus(o)), host)
             check == on_host_task_check_ok(ctxCheck, WithStatus(CheckStatus(o)), host)
         IN  /\ ~real.panicked
             /\ ~check.panicked
             /\ ctxReal' = real.context
             /\ ctxCheck' = check.context
    /\ UNCHANGED <<visitorVars, handleVars, workerVars>>

NextModes == DeliverOutcome

\* C7: after any sequence of (host, outcome) pairs the real-mode and the
\* check-mode aggregator hold the same totals and the same distinct-host
\* counts in every bucket, attempted included.
C7_ModesReportSymmetrically ==
    /\ ctxReal.total = ctxCheck.total
    /\ ctxReal.hosts = ctxCheck.hosts
    /\ ctxReal.count = ctxCheck.count

\* C7 witness: hostA created and modified, hostB failed
C7_Witness ==
    /\ ctxReal.total["created"] = 1
    /\ ctxCheck.total["modified"] = 1
    /\ ctxReal.total["attempted"] = 3
    /\ ctxCheck.hosts["attempted"] = 2
    /\ ctxCheck.count["modified"]["hostA"] = 1
    /\ ctxReal.count["attempted"]["hostB"] = 1
    /\ ctxReal.total["failed"] = 0

\* ------------------------------------------------------ concurrent workers

\* the executor's worker threads, each bound to one host
Workers == {"w1", "w2"}
HostOf(w) == IF w = "w1" THEN "hostA" ELSE "hostB"
NoWorker == "-"

\* PlaybookContext.verbosity: around the two thresholds, > 0 and > 2
Verbosities == {0, 1, 2, 3}
\* the verbosities of the concurrent runs: silent, and full command output
WorkerVerbosities == {0, 3}

\* one step of a handler: a lock call, a guard drop, a read or a write of the
\* context, one println!, the recording into the host, or a panic
Instr(op, arg, pos) == [op |-> op, arg |-> arg, pos |-> pos]

host_read == Instr("host.read", "-", "-")
host_write == Instr("host.write", "-", "-")
host_drop == Instr("host.drop", "-", "-")
context_read == Instr("context.read", "-", "-")
context_write == Instr("context.write", "-", "-")
context_drop == Instr("context.drop", "-", "-")
\* reading a field or a count off the guard
context_get(field) == Instr("get", field, "-")
\* increment_<cat>_for_host(&mut self): the counters are read, then written
increment(cat) == <<Instr("load", cat, "-"), Instr("store", cat, "-")>>
record == Instr("record_task_response", "-", "-")
println(line) == Instr("println", line, "single")
\* a println! of a multi-line block: its first, a middle or its last line
println_of_block(line, pos) == Instr("println", line, pos)
panic(msg) == Instr("panic", msg, "-")

\* the cmd / out / rc lines that end a multi-line block
CommandLines ==
    <<println_of_block("cmd", "middle"), println_of_block("out", "middle"),
      println_of_block("rc", "last")>>

on_host_task_start_steps == <<host_read, println("running")>>
on_notify_handler_steps == <<host_read, println("notified")>>
on_host_delegate_steps == <<host_read, println("delegating to")>>

\* the match on the response's status in on_host_task_ok
real_status_steps(status) ==
    CASE status = "IsCreated" -> <<println("created")>> \o increment("created")
      [] status = "IsRemoved" -> <<println("removed")>> \o increment("removed")
      [] status = "IsModified" -> <<println("modified")>> \o increment("modified")
      [] status = "IsExecuted" -> <<println("complete")>> \o increment("executed")
      [] status = "IsPassive" -> increment("passive")
      [] status = "IsMatched" -> <<println("matched")>> \o increment("matched")
      [] status = "IsSkipped" -> <<println("skipped")>> \o increment("skipped")
      [] status = "Failed" -> <<println("failed (ignored)")>>
      [] OTHER -> <<panic("invalid response to apply op")>>

\* the match on the response's status in on_host_task_check_ok
check_status_steps(status) ==
    CASE status = "NeedsCreation" -> <<println("would create")>> \o increment("created")
      [] status = "NeedsRemoval" -> <<println("would remove")>> \o increment("removed")
      [] status = "NeedsModification" -> <<println("would modify")>> \o increment("modified")
      [] status = "NeedsExecution" -> <<println("would run")>> \o increment("executed")
      [] status = "IsPassive" -> increment("passive")
      [] status = "IsMatched" -> <<println("matched")>> \o increment("matched")
      [] status = "IsSkipped" -> <<println("skipped")>> \o increment("skipped")
      [] status = "Failed" -> <<println("failed (ignored)")>>
      [] OTHER -> <<panic("invalid response to check op")>>

\* mutant of on_host_task_ok_steps: the context is locked shared, not exclusive
on_host_task_ok_steps_under_read(task_response) ==
    <<host_read, context_read>> \o increment("attempted")
        \o real_status_steps(task_response.status)

on_host_task_ok_steps(task_response) ==
    <<host_read, context_write>> \o increment("attempted")
        \o real_status_steps(task_response.status)

\* mutant of on_host_task_check_ok_steps: the attempt is counted after the match
on_host_task_check_ok_steps_counts_attempt_last(task_response) ==
    <<host_read, context_write>> \o check_status_steps(task_response.status)
        \o increment("attempted")

on_host_task_check_ok_steps(task_response) ==
    <<host_read, context_write>> \o increment("attempted")
        \o check_status_steps(task_response.status)

on_host_task_retry_steps == <<host_read, println("retrying")>>

\* mutant of on_host_task_failed_steps: _lock is still held at the increment
on_host_task_failed_steps_keeps_lock(task_response) ==
    <<host_read>> \o
    (IF task_response.msg # None
     THEN (IF task_response.command_result # None
           THEN <<context_write, println_of_block("failed", "first")>> \o CommandLines
           ELSE <<println("error: msg")>>)
     ELSE <<println("host failed")>>)
    \o <<context_write>> \o increment("failed") \o <<context_drop>>

on_host_task_failed_steps(task_response) ==
    <<host_read>> \o
    (IF task_response.msg # None
     THEN (IF task_response.command_result # None
           THEN <<context_write, println_of_block("failed", "first")>> \o CommandLines
                \o <<context_drop>>
           ELSE <<println("error: msg")>>)
     ELSE <<println("host failed")>>)
    \o <<context_write>> \o increment("failed") \o <<context_drop>>

\* mutant of on_host_connect_failed_steps: the context is locked before the host
on_host_connect_failed_steps_context_first ==
    <<context_write, host_read>> \o increment("failed") \o <<context_drop>>
    \o <<println("connection failed")>>

on_host_connect_failed_steps ==
    <<host_read, context_write>> \o increment("failed") \o <<context_drop>>
    \o <<println("connection failed")>>

get_exit_status_steps ==
    <<context_read, context_get("hosts_failed_count"), context_drop>>

\* the summary reads its counts off one read guard, kept while it prints
show_playbook_summary_steps ==
    <<context_read, context_get("counts"), println("summary")>>

\* `seen` is the verbosity the handler read, once it has read it
on_before_transfer_steps(seen) ==
    <<host_read, context_read, context_get("verbosity"), context_drop>> \o
    (IF seen > 0 THEN <<println("transferring to")>> ELSE <<>>)

on_command_run_steps(seen) ==
    <<host_read, context_read, context_get("verbosity"), context_drop>> \o
    (IF seen > 0 THEN <<println("exec")>> ELSE <<>>)

\* mutant of on_command_ok_steps: the detail is shown from verbosity 2 on
on_command_ok_steps_from_two(result, seen) ==
    <<host_read>> \o
    (IF result = None THEN <<panic("missing command result")>>
     ELSE <<context_read, context_get("verbosity"), context_drop>> \o
          (IF seen > 1
           THEN <<context_write, println_of_block("command ok", "first")>> \o CommandLines
           ELSE <<>>))

on_command_ok_steps(result, seen) ==
    <<host_read>> \o
    (IF result = None THEN <<panic("missing command result")>>
     ELSE <<context_read, context_get("verbosity"), context_drop>> \o
          (IF seen > 2
           THEN <<context_write, println_of_block("command ok", "first")>> \o CommandLines
           ELSE <<>>))

on_command_failed_steps(result, seen) ==
    <<host_read>> \o
    (IF result = None THEN <<panic("missing command result")>>
     ELSE <<context_read, context_get("verbosity"), context_drop>> \o
          (IF seen > 2
           THEN <<context_write, println_of_block("command failed", "first")>> \o CommandLines
           ELSE <<>>))

\* a Task Handle constructor: the assert on the request type if it has one,
\* then self.host.write().unwrap().record_task_response(..)
HandleConstructors == {"is_failed", "command_failed", "is_created"}
HandleAsserts(op, request) == op # "is_created" \/ request.request_type = "Create"
HandleBuilds(op) ==
    CASE op = "is_failed" ->
           [status |-> "Failed", changes |-> None, msg |-> Some("msg1"),
            command_result |-> None]
      [] op = "command_failed" ->
           [status |-> "Failed", changes |-> None, msg |-> None,
            command_result |-> Some([cmd |-> "cmd1", out |-> "out1", rc |-> 1])]
      [] OTHER ->
           [status |-> "IsCreated", changes |-> None, msg |-> None,
            command_result |-> None]

handle_steps(op, request) ==
    IF HandleAsserts(op, request)
    THEN <<host_write, record, host_drop>>
    ELSE <<panic("assertion failed")>>

\* a worker between calls, and the call of a worker that has made none
NoWorkerCall ==
    [handler |-> "-", response |-> NoResponse, result |-> None,
     request |-> [request_type |-> "-"]]
IdleWorker ==
    [state |-> "idle", call |-> NoWorkerCall, steps |-> <<>>, pc |-> 1, calls |-> 0,
     tmp |-> None, seen |-> -1, printed |-> <<>>]

NoGuards == [writer |-> NoWorker, readers |-> {}]
NoBlock == [owner |-> NoWorker, lines |-> <<>>]

InitWorkers ==
    /\ workers = [w \in Workers |-> IdleWorker]
    /\ locks = [context |-> NoGuards, poisoned |-> FALSE,
                host |-> [h \in Hosts |-> NoGuards]]
    /\ issued = [c \in Categories |-> 0]
    /\ block = NoBlock

\* SpecNotices: one worker runs alone
InitOneWorker ==
    /\ workers = [w \in Workers |->
          IF w = "w1" THEN IdleWorker ELSE [IdleWorker EXCEPT !.state = "absent"]]
    /\ locks = [context |-> NoGuards, poisoned |-> FALSE,
                host |-> [h \in Hosts |-> NoGuards]]
    /\ issued = [c \in Categories |-> 0]
    /\ block = NoBlock

\* the steps of the call a worker is in, given what it has read so far
Steps(me) ==
    CASE me.call.handler = "on_host_task_start" -> on_host_task_start_steps
      [] me.call.handler = "on_notify_handler" -> on_notify_handler_steps
      [] me.call.handler = "on_host_delegate" -> on_host_delegate_steps
      [] me.call.handler = "on_host_task_ok" -> on_host_task_ok_steps(me.call.response)
      [] me.call.handler = "on_host_task_check_ok" ->
             on_host_task_check_ok_steps(me.call.response)
      [] me.call.handler = "on_host_task_retry" -> on_host_task_retry_steps
      [] me.call.handler = "on_host_task_failed" ->
             on_host_task_failed_steps(me.call.response)
      [] me.call.handler = "on_host_connect_failed" -> on_host_connect_failed_steps
      [] me.call.handler = "get_exit_status" -> get_exit_status_steps
      [] me.call.handler = "show_playbook_summary" -> show_playbook_summary_steps
      [] me.call.handler = "on_before_transfer" -> on_before_transfer_steps(me.seen)
      [] me.call.handler = "on_command_run" -> on_command_run_steps(me.seen)
      [] me.call.handler = "on_command_ok" -> on_command_ok_steps(me.call.result, me.seen)
      [] me.call.handler = "on_command_failed" ->
             on_command_failed_steps(me.call.result, me.seen)
      [] me.call.handler \in HandleConstructors ->
             handle_steps(me.call.handler, me.call.request)
      [] OTHER -> <<>>

\* the handlers that take a host, and so its read guard, first
HostHandlers ==
    {"on_host_task_start", "on_notify_handler", "on_host_delegate",
     "on_host_task_ok", "on_host_task_check_ok", "on_host_task_retry",
     "on_host_task_failed", "on_host_connect_failed", "on_before_transfer",
     "on_command_run", "on_command_ok", "on_command_failed"}

\* the step a worker is about to take; past the last one, the return
Cur(w) ==
    IF workers[w].pc > Len(workers[w].steps) THEN Instr("return", "-", "-")
    ELSE workers[w].steps[workers[w].pc]

At(w, ops) == workers[w].state = "running" /\ Cur(w).op \in ops

HoldsRead(guards, w) == w \in guards.readers
HoldsWrite(guards, w) == guards.writer = w
Holds(guards, w) == HoldsRead(guards, w) \/ HoldsWrite(guards, w)
HoldsHost(w) == \E h \in Hosts : Holds(locks.host[h], w)
HoldsContext(w) == Holds(locks.context, w)

\* RwLock::read / RwLock::write: when the call can return
CanLock(guards, mode) ==
    IF mode = "read" THEN guards.writer = NoWorker
    ELSE guards.writer = NoWorker /\ guards.readers = {}

Locked(guards, w, mode) ==
    IF mode = "read" THEN [guards EXCEPT !.readers = @ \cup {w}]
    ELSE [guards EXCEPT !.writer = w]

\* a guard is dropped
Dropped(guards, w) ==
    [writer |-> IF guards.writer = w THEN NoWorker ELSE guards.writer,
     readers |-> guards.readers \ {w}]

\* every guard the worker holds is dropped: at a return, and when a panic
\* unwinds; a panic under the context's write guard poisons the lock
DroppedAll(w, panicking) ==
    [context |-> Dropped(locks.context, w),
     poisoned |-> locks.poisoned \/ (panicking /\ HoldsWrite(locks.context, w)),
     host |-> [h \in Hosts |-> Dropped(locks.host[h], w)]]

CallsStarted == workers["w1"].calls + workers["w2"].calls

WorkerFrame == UNCHANGED <<event, connection, call, modeVars, verbosity>>

Advanced(w) == [workers EXCEPT ![w].pc = @ + 1]

\* panic!, a failed assert!, expect on None, unwrap of a poisoned lock
Unwinds(w) ==
    /\ workers' = [workers EXCEPT ![w] =
          [IdleWorker EXCEPT !.state = "aborted", !.calls = workers[w].calls,
                             !.call = workers[w].call]]
    /\ locks' = DroppedAll(w, TRUE)
    /\ UNCHANGED <<context, hosts, issued, block>>
    /\ WorkerFrame

\* host.read().unwrap() / host.write().unwrap()
LockHost(w) ==
    /\ At(w, {"host.read", "host.write"})
    /\ LET mode == IF Cur(w).op = "host.read" THEN "read" ELSE "write"
           h == HostOf(w)
       IN  /\ CanLock(locks.host[h], mode)
           /\ locks' = [locks EXCEPT !.host[h] = Locked(@, w, mode)]
    /\ workers' = Advanced(w)
    /\ UNCHANGED <<context, hosts, issued, block>>
    /\ WorkerFrame

DropHost(w) ==
    /\ At(w, {"host.drop"})
    /\ locks' = [locks EXCEPT !.host[HostOf(w)] = Dropped(@, w)]
    /\ workers' = Advanced(w)
    /\ UNCHANGED <<context, hosts, issued, block>>
    /\ WorkerFrame

\* context.read().unwrap() / context.write().unwrap()
LockContext(w) ==
    /\ At(w, {"context.read", "context.write"})
    /\ LET mode == IF Cur(w).op = "context.read" THEN "read" ELSE "write"
       IN  /\ CanLock(locks.context, mode)
           /\ IF locks.poisoned
              THEN Unwinds(w)
              ELSE /\ locks' = [locks EXCEPT !.context = Locked(@, w, mode)]
                   /\ workers' = Advanced(w)
                   /\ UNCHANGED <<context, hosts, issued, block>>
                   /\ WorkerFrame

DropContext(w) ==
    /\ At(w, {"context.drop"})
    /\ locks' = [locks EXCEPT !.context = Dropped(@, w)]
    /\ workers' = Advanced(w)
    /\ UNCHANGED <<context, hosts, issued, block>>
    /\ WorkerFrame

\* .verbosity / .get_hosts_failed_count() on the guard
GetFromContext(w) ==
    /\ At(w, {"get"})
    /\ LET me == [workers[w] EXCEPT
                     !.pc = @ + 1,
                     !.seen = IF Cur(w).arg = "verbosity" THEN verbosity
                              ELSE get_hosts_failed_count(context)]
       IN  workers' = [workers EXCEPT ![w] = [me EXCEPT !.steps = Steps(me)]]
    /\ UNCHANGED <<context, hosts, locks, issued, block>>
    /\ WorkerFrame

\* increment_<cat>_for_host reads the counters ..
LoadCounters(w) ==
    /\ At(w, {"load"})
    /\ workers' = [Advanced(w) EXCEPT ![w].tmp = Some(context)]
    /\ UNCHANGED <<context, hosts, locks, issued, block>>
    /\ WorkerFrame

\* .. and writes them back, one higher
StoreCounters(w) ==
    /\ At(w, {"store"})
    /\ context' = IncrementForHost(workers[w].tmp[1], Cur(w).arg, HostOf(w))
    /\ issued' = [issued EXCEPT ![Cur(w).arg] = @ + 1]
    /\ workers' = [Advanced(w) EXCEPT ![w].tmp = None]
    /\ UNCHANGED <<hosts, locks, block>>
    /\ WorkerFrame

\* println!: one line reaches stdout whole; `block` follows the lines from
\* the first line of a multi-line block to its last
Println(w) ==
    /\ At(w, {"println"})
    /\ LET line == [by |-> w, line |-> Cur(w).arg]
       IN  /\ workers' = [Advanced(w) EXCEPT ![w].printed = Append(@, Cur(w).arg)]
           /\ block' =
                IF Cur(w).pos = "first" THEN [owner |-> w, lines |-> <<line>>]
                ELSE IF block.owner = NoWorker THEN block
                ELSE IF Cur(w).pos = "last" /\ block.owner = w THEN NoBlock
                ELSE [block EXCEPT !.lines = Append(@, line)]
    /\ UNCHANGED <<context, hosts, locks, issued>>
    /\ WorkerFrame

\* record_task_response on the guard of host.write()
RecordTaskResponse(w) ==
    /\ At(w, {"record_task_response"})
    /\ LET h == HostOf(w)
           guard == IF HoldsWrite(locks.host[h], w) THEN "write"
                    ELSE IF HoldsRead(locks.host[h], w) THEN "read" ELSE "none"
       IN  hosts' = [hosts EXCEPT ![h] =
              record_task_response(@, guard, workers[w].call.request,
                                   workers[w].call.response)]
    /\ workers' = Advanced(w)
    /\ UNCHANGED <<context, locks, issued, block>>
    /\ WorkerFrame

Panics(w) ==
    /\ At(w, {"panic"})
    /\ Unwinds(w)

\* the function returns: the guards still alive are dropped, and the worker
\* is free for its next call
Returns(w) ==
    /\ At(w, {"return"})
    /\ workers' = [workers EXCEPT ![w] = [IdleWorker EXCEPT !.calls = workers[w].calls]]
    /\ locks' = DroppedAll(w, FALSE)
    /\ UNCHANGED <<context, hosts, issued, block>>
    /\ WorkerFrame

\* a call as a worker enters it
Call(handler, response, result, kind) ==
    [handler |-> handler, response |-> response, result |-> result,
     request |-> [request_type |-> kind]]

\* the calls the workers make. The ok handlers are handed a counted status,
\* the ignored failure and one outside their vocabulary; the handle builds
\* is_failed and command_failed for a Query, is_created for a Create and,
\* against its assert, for a Query
WorkerCalls ==
    {Call(handler, NoResponse, None, "-") :
        handler \in {"on_host_task_start", "on_notify_handler", "on_host_delegate",
                     "on_host_task_retry", "on_host_connect_failed",
                     "get_exit_status", "show_playbook_summary",
                     "on_before_transfer", "on_command_run"}}
    \cup {Call("on_host_task_ok", WithStatus(status), None, "-") :
             status \in {"IsCreated", "Failed", "NeedsCreation"}}
    \cup {Call("on_host_task_check_ok", WithStatus(status), None, "-") :
             status \in {"NeedsCreation", "IsCreated"}}
    \cup {Call("on_host_task_failed", task_response, None, "-") :
             task_response \in FailedResponses}
    \cup {Call(handler, NoResponse, result, "-") :
             handler \in {"on_command_ok", "on_command_failed"},
             result \in Option(CommandResult)}
    \cup {Call(op, HandleBuilds(op), None, "Query") :
             op \in {"is_failed", "command_failed", "is_created"}}
    \cup {Call("is_created", HandleBuilds("is_created"), None, "Create")}

\* a free worker enters a handler, or a Task Handle constructor
Enters(w) ==
    /\ workers[w].state = "idle"
    /\ CallsStarted < MaxWorkerCalls
    /\ \E c \in WorkerCalls :
         LET me == [IdleWorker EXCEPT !.state = "running",
                                      !.calls = workers[w].calls + 1,
                                      !.call = c]
         IN  workers' = [workers EXCEPT ![w] = [me EXCEPT !.steps = Steps(me)]]
    /\ UNCHANGED <<context, hosts, locks, issued, block>>
    /\ WorkerFrame

NextWorkers ==
    \E w \in Workers :
       \/ Enters(w)
       \/ LockHost(w)
       \/ DropHost(w)
       \/ LockContext(w)
       \/ DropContext(w)
       \/ GetFromContext(w)
       \/ LoadCounters(w)
       \/ StoreCounters(w)
       \/ Println(w)
       \/ RecordTaskResponse(w)
       \/ Panics(w)
       \/ Returns(w)

\* ------------------------------------------------- claims on the workers

IsRunning(w) == workers[w].state = "running"

\* C15: every write of the counters is made under the context's exclusive
\* guard and every read of the context (the failed-hosts count, the verbosity,
\* the summary's counts) under a guard; in every interleaving no increment is
\* lost: each total is the number of increments the handlers made.
C15_CountersGuardedAndNoIncrementLost ==
    /\ \A w \in Workers :
         /\ At(w, {"load", "store"}) => HoldsWrite(locks.context, w)
         /\ At(w, {"get"}) => Holds(locks.context, w)
    /\ \A c \in Categories : context.total[c] = issued[c]

\* C15 witness: w2 is between the read and the write of its created count,
\* its attempt already counted, while w1 waits for the exclusive guard
C15_Witness ==
    /\ At("w1", {"context.write"})
    /\ workers["w1"].call.handler = "on_host_task_failed"
    /\ At("w2", {"store"})
    /\ workers["w2"].call.handler = "on_host_task_ok"
    /\ context.total["attempted"] = 1
    /\ HoldsWrite(locks.context, "w2")

\* C16 as claimed: a worker never holds a host lock and the context lock at
\* the same time.
C16_NeverHoldsHostAndContext ==
    \A w \in Workers : ~(HoldsHost(w) /\ HoldsContext(w))

\* C16 as amended: the Task Handle's recording holds the host's exclusive
\* guard alone; a visitor handler takes its host's shared guard first and
\* keeps it to its return, so whenever it holds the context lock it holds
\* that shared guard too; no worker asks for a host lock while it holds the
\* context lock.
C16_HostGuardFirstAndKept ==
    \A w \in Workers :
       /\ At(w, {"host.read", "host.write"}) => ~HoldsContext(w)
       /\ workers[w].call.handler \in HandleConstructors => ~HoldsContext(w)
       /\ HoldsWrite(locks.host[HostOf(w)], w)
             => workers[w].call.handler \in HandleConstructors
       /\ (HoldsContext(w) /\ workers[w].call.handler \in HostHandlers)
             => HoldsRead(locks.host[HostOf(w)], w)

\* C16 witness: w1, in on_host_task_ok, holds hostA's shared guard and the
\* context's exclusive guard
C16_Witness ==
    /\ workers["w1"].call.handler = "on_host_task_ok"
    /\ HoldsRead(locks.host["hostA"], "w1")
    /\ HoldsWrite(locks.context, "w1")
    /\ At("w1", {"load"})

\* the steps of a worker inside a call
WorkerStep(w) ==
    \/ LockHost(w) \/ DropHost(w) \/ LockContext(w) \/ DropContext(w)
    \/ GetFromContext(w) \/ LoadCounters(w) \/ StoreCounters(w)
    \/ Println(w) \/ RecordTaskResponse(w) \/ Panics(w) \/ Returns(w)

\* C17: no deadlock is reachable: no worker asks for a host lock while it
\* holds the context lock or a host guard, none asks for the context lock
\* while it holds a guard on it, and whenever a call is in progress some
\* worker inside a call can take its next step, so every call that does not
\* abort runs on to its return.
C17_NoDeadlock ==
    /\ \A w \in Workers :
         /\ At(w, {"host.read", "host.write"}) => (~HoldsContext(w) /\ ~HoldsHost(w))
         /\ At(w, {"context.read", "context.write"}) => ~HoldsContext(w)
    /\ (\E w \in Workers : IsRunning(w))
          => \E w \in Workers : IsRunning(w) /\ ENABLED WorkerStep(w)

\* C17 witness: w1, in on_host_task_failed, has printed its block, dropped
\* the guard and taken the exclusive guard again, while w2 waits for the lock
C17_Witness ==
    /\ workers["w1"].call.handler = "on_host_task_failed"
    /\ Len(workers["w1"].printed) = 4
    /\ At("w1", {"store"})
    /\ HoldsWrite(locks.context, "w1")
    /\ At("w2", {"context.read"})
    /\ workers["w2"].call.handler = "on_command_ok"

TransferNotices == {"on_before_transfer", "on_command_run"}
CommandNotices == {"on_command_ok", "on_command_failed"}

\* C18: on_before_transfer and on_command_run print a line exactly when the
\* verbosity is above 0, on_command_ok and on_command_failed print their
\* detail exactly when it is above 2, at verbosity 0 none prints, and none of
\* the four changes a counter.
C18_NoticesGatedByVerbosity ==
    /\ [](\A w \in Workers :
            /\ (IsRunning(w) /\ workers[w].call.handler \in TransferNotices)
                 => /\ workers[w].printed # <<>> => verbosity > 0
                    /\ At(w, {"return"}) =>
                         (Len(workers[w].printed) = 1 <=> verbosity > 0)
            /\ (IsRunning(w) /\ workers[w].call.handler \in CommandNotices)
                 => /\ workers[w].printed # <<>> => verbosity > 2
                    /\ At(w, {"return"}) =>
                         (Len(workers[w].printed) = 4 <=> verbosity > 2)
            /\ (IsRunning(w) /\ verbosity = 0
                  /\ workers[w].call.handler \in TransferNotices \cup CommandNotices)
                 => workers[w].printed = <<>>)
    /\ [][ (\E w \in Workers :
              /\ workers'[w] # workers[w]
              /\ workers'[w].call.handler \in TransferNotices \cup CommandNotices)
           => (context' = context /\ issued' = issued) ]_vars

\* C18 witness: at verbosity 3, on_command_ok is about to return with its
\* four lines printed
C18_Witness ==
    /\ verbosity = 3
    /\ workers["w1"].call.handler = "on_command_ok"
    /\ At("w1", {"return"})
    /\ workers["w1"].printed = <<"command ok", "cmd", "out", "rc">>

\* C19: on_host_task_failed reports the cmd / out / rc of every Failed
\* response that carries a command result, the responses built by
\* command_failed among them, and the message of a response built by
\* is_failed.
C19_FailedResponseDetailReported ==
    \A w \in Workers :
       (At(w, {"return"}) /\ workers[w].call.handler = "on_host_task_failed") =>
          LET task_response == workers[w].call.response
              shown == {workers[w].printed[i] : i \in 1..Len(workers[w].printed)}
          IN  /\ task_response.command_result # None
                   => {"cmd", "out", "rc"} \subseteq shown
              /\ task_response = HandleBuilds("is_failed")
                   => "error: msg" \in shown

\* C20: the lines of a multi-line block are contiguous: between its first
\* and its last line stdout holds no line of another worker.
C20_BlockLinesContiguous ==
    \A i \in 1..Len(block.lines) : block.lines[i].by = block.owner

OutcomeHandlers == {"on_host_task_ok", "on_host_task_check_ok"}
OutcomeBuckets == Categories \ {"attempted", "failed"}

\* a worker inside on_host_task_ok or on_host_task_check_ok
InOutcomeHandler(w) == IsRunning(w) /\ workers[w].call.handler \in OutcomeHandlers

\* the outcomes counted for a host, over all buckets
OutcomesCounted(ctx, h) ==
    SumOver([c \in OutcomeBuckets |-> ctx.count[c][h]], OutcomeBuckets)

\* C23: a call of on_host_task_ok or on_host_task_check_ok takes the exclusive
\* guard once and keeps it to its end; its first counter step is the one
\* increment of attempted, made before anything that depends on the status,
\* and at most one outcome bucket is incremented, once, after it; so no state
\* shows a host with more outcomes than attempts, the host's attempted count
\* goes up by exactly one per call, at that step and at no other, and a call
\* that panics on a status outside its vocabulary has counted its attempt.
C23_AttemptCountedFirstUnderOneHold ==
    /\ [](\A w \in Workers :
            /\ InOutcomeHandler(w) =>
                 LET steps == workers[w].steps
                     pc == workers[w].pc
                     stores == {i \in DOMAIN steps : steps[i].op = "store"}
                 IN  /\ steps[2] = context_write
                     /\ <<steps[3], steps[4]>> = increment("attempted")
                     /\ \A i \in DOMAIN steps :
                           i > 2 => steps[i].op \notin {"context.write", "context.read",
                                                        "context.drop"}
                     /\ {i \in stores : steps[i].arg = "attempted"} = {4}
                     /\ Cardinality(stores \ {4}) <= 1
                     /\ \A i \in stores \ {4} : steps[i].arg \in OutcomeBuckets
                     /\ pc > 2 => HoldsWrite(locks.context, w)
                     /\ At(w, {"panic"}) =>
                           /\ pc = 5
                           /\ context.count["attempted"][HostOf(w)] >= 1
            /\ OutcomesCounted(context, HostOf(w))
                  <= context.count["attempted"][HostOf(w)])
    /\ [][ \A w \in Workers :
             context'.count["attempted"][HostOf(w)] =
                context.count["attempted"][HostOf(w)]
                  + (IF InOutcomeHandler(w) /\ workers[w].pc = 4 /\ workers'[w].pc = 5
                     THEN 1 ELSE 0) ]_vars

\* C23 witness: w1's on_host_task_check_ok panicked on IsCreated with its one
\* attempt counted and no outcome, while w2 is inside on_host_task_ok
C23_Witness ==
    /\ workers["w1"].state = "aborted"
    /\ workers["w1"].calls = 1
    /\ workers["w1"].call.handler = "on_host_task_check_ok"
    /\ workers["w1"].call.response.status = "IsCreated"
    /\ locks.poisoned
    /\ context.count["attempted"]["hostA"] = 1
    /\ OutcomesCounted(context, "hostA") = 0
    /\ InOutcomeHandler("w2")


\* a specification follows one part of the program; the parts that take no
\* step in it are left out of its state
Absent == <<>>
ModesAbsent == ctxReal = Absent /\ ctxCheck = Absent
WorkersAbsent == workers = Absent /\ locks = Absent /\ issued = Absent /\ block = Absent

Init == InitVisitor /\ InitHandle /\ ModesAbsent /\ WorkersAbsent /\ verbosity = 0

Next == NextVisitor

Spec == Init /\ [][Next]_vars

SpecHandle == Init /\ [][NextHandle]_vars

\* the real-mode and the check-mode run, side by side
InitTwoModes == InitVisitor /\ InitHandle /\ InitModes /\ WorkersAbsent /\ verbosity = 0

SpecModes == InitTwoModes /\ [][NextModes]_vars

\* a concurrent run starts at either verbosity
InitConcurrent ==
    InitVisitor /\ InitHandle /\ InitModes /\ InitWorkers
        /\ verbosity \in WorkerVerbosities

SpecWorkers == InitConcurrent /\ [][NextWorkers]_vars

\* a run of one worker starts at any verbosity
InitNotices ==
    InitVisitor /\ InitHandle /\ InitModes /\ InitOneWorker
        /\ verbosity \in Verbosities

SpecNotices == InitNotices /\ [][NextWorkers]_vars

====
